---- MODULE Spec2Model ----
(***************************************************************************)
(* A model of src/src/auto-command-manager.ts: the AutoCommandManager that *)
(* wraps the `auto` release tool.  Text that the code inspects character   *)
(* by character (the output of `auto --version`) is a sequence of          *)
(* one-character strings; text that the code only passes along (flag       *)
(* names, flag values, argument vectors) is a TLA+ string.                 *)
(***************************************************************************)
EXTENDS Integers, Sequences, FiniteSets, TLC

VARIABLES
  autoEnv,      \* AutoCommandManager.autoEnv: the environment overlay
  autoCommand,  \* AutoCommandManager.autoCommand: the resolved executable
  globalArgs,   \* AutoCommandManager.globalArgs
  initState,    \* "new" | "probing" | "ready" | "failed": createCommandManager's progress
  initError,    \* the error initializeCommandManager threw, "none" if none
  initInputs,   \* the arguments createCommandManager was called with
  probe,        \* the `--version` subprocess started by initializeCommandManager
  calls         \* the operations called so far, each with its subprocess

vars == <<autoEnv, autoCommand, globalArgs, initState, initError, initInputs, probe, calls>>

\* The Invoker configuration: the three private fields of AutoCommandManager.
config == <<autoCommand, globalArgs, autoEnv>>

-----------------------------------------------------------------------------
(* Bounds of the model *)

\* The number of operations the caller issues in one run.
MaxCalls == 2

-----------------------------------------------------------------------------
(* Characters and text *)

Digits == {"0", "1", "2", "3", "4", "5", "6", "7", "8", "9"}

\* The characters String.prototype.trim removes (those the model's texts use).
WhiteSpace == {" ", "\n", "\t", "\r"}

DigitChars == <<"0", "1", "2", "3", "4", "5", "6", "7", "8", "9">>

DigitVal(c) == CHOOSE d \in 0..9 : DigitChars[d + 1] = c

\* UTF-16 code units of the characters a version string is made of.
CharCode(c) == IF c = "." THEN 46 ELSE 48 + DigitVal(c)

SetMax(S) == CHOOSE m \in S : \A k \in S : k <= m

SetMin(S) == CHOOSE m \in S : \A k \in S : m <= k

\* Number.prototype.toString, radix 10, as a sequence of characters.
RECURSIVE NatChars(_)
NatChars(n) == IF n < 10 THEN <<DigitChars[n + 1]>>
               ELSE Append(NatChars(n \div 10), DigitChars[(n % 10) + 1])

\* Array.prototype.join(''): the pieces concatenated into one string.
RECURSIVE JoinStr(_)
JoinStr(cs) == IF cs = <<>> THEN "" ELSE Head(cs) \o JoinStr(Tail(cs))

NumberToStringLastDigit(n) == DigitChars[((IF n < 0 THEN -n ELSE n) % 10) + 1]

\* pr.toString()
NumberToString(n) == IF n < 0 THEN "-" \o JoinStr(NatChars(-n)) ELSE JoinStr(NatChars(n))

\* Array.prototype.join(' ')
RECURSIVE JoinSpace(_)
JoinSpace(ps) == IF ps = <<>> THEN ""
                 ELSE IF Len(ps) = 1 THEN ps[1]
                 ELSE ps[1] \o " " \o JoinSpace(Tail(ps))

\* stdout.join(''): the chunks the stdout listener pushed, concatenated in order.
RECURSIVE JoinChunks(_)
JoinChunks(chunks) == IF chunks = <<>> THEN <<>>
                      ELSE Head(chunks) \o JoinChunks(Tail(chunks))

\* String.prototype.trim
Trim(s) ==
  LET keep == {i \in 1..Len(s) : s[i] \notin WhiteSpace}
  IN IF keep = {} THEN <<>> ELSE SubSeq(s, SetMin(keep), SetMax(keep))

\* stdout.includes('\n')
IncludesNewline(s) == \E i \in 1..Len(s) : s[i] = "\n"

-----------------------------------------------------------------------------
(* The version check of initializeCommandManager *)

\* The end of the longest run of digits of s that starts at i (i - 1 if none).
DigitRunEnd(s, i) ==
  SetMax({j \in (i - 1)..Len(s) : \A k \in i..j : s[k] \in Digits})

\* Where /\d+\.\d+(\.\d+)?/ ends when matched at position i of s, 0 if it does not match.
MatchEndAt(s, i) ==
  LET e1 == DigitRunEnd(s, i)
      e2 == DigitRunEnd(s, e1 + 2)
      e3 == DigitRunEnd(s, e2 + 2)
  IN IF e1 < i \/ e1 + 1 > Len(s) THEN 0
     ELSE IF s[e1 + 1] # "." \/ e2 < e1 + 2 THEN 0
     ELSE IF e2 + 1 <= Len(s) /\ s[e2 + 1] = "." /\ e3 >= e2 + 2 THEN e3
     ELSE e2

VersionMatchAtStart(s) ==
  IF s # <<>> /\ MatchEndAt(s, 1) > 0 THEN SubSeq(s, 1, MatchEndAt(s, 1)) ELSE <<>>

\* stdout.match(/\d+\.\d+(\.\d+)?/): match[0] of the leftmost match, <<>> for null.
VersionMatch(s) ==
  LET starts == {i \in 1..Len(s) : MatchEndAt(s, i) > 0}
  IN IF starts = {} THEN <<>>
     ELSE SubSeq(s, SetMin(starts), MatchEndAt(s, SetMin(starts)))

\* The dot-separated components of a text of digits and dots.
RECURSIVE SplitDots(_)
SplitDots(m) ==
  LET dots == {i \in 1..Len(m) : m[i] = "."}
  IN IF dots = {} THEN <<m>>
     ELSE <<SubSeq(m, 1, SetMin(dots) - 1)>> \o SplitDots(SubSeq(m, SetMin(dots) + 1, Len(m)))

\* semver's numeric identifier, 0|[1-9]\d*
NumericIdentifier(c) ==
  /\ Len(c) >= 1
  /\ \A i \in 1..Len(c) : c[i] \in Digits
  /\ Len(c) > 1 => c[1] # "0"

\* semver.valid(match[0]) is not null: major.minor.patch, no leading zeros.
\* (A match holds digits and dots only, so no prerelease or build part occurs.)
SemverValid(m) ==
  /\ Len(SplitDots(m)) = 3
  /\ \A i \in 1..3 : NumericIdentifier(SplitDots(m)[i])

RECURSIVE CharsToNat(_)
CharsToNat(c) == IF c = <<>> THEN 0
                 ELSE 10 * CharsToNat(SubSeq(c, 1, Len(c) - 1)) + DigitVal(c[Len(c)])

\* new SemVer(text): the three numbers, and `version`, which toString() returns.
SemVer(m) ==
  LET p == SplitDots(m)
      major == CharsToNat(p[1])
      minor == CharsToNat(p[2])
      patch == CharsToNat(p[3])
  IN [major |-> major, minor |-> minor, patch |-> patch,
      version |-> NatChars(major) \o <<".">> \o NatChars(minor) \o <<".">> \o NatChars(patch)]

MinimumAutoVersion == SemVer(<<"9", ".", "2", "5", ".", "0">>)

\* a < b on two strings: the code units compared left to right.
RECURSIVE StringLess(_, _)
StringLess(a, b) ==
  IF b = <<>> THEN FALSE
  ELSE IF a = <<>> THEN TRUE
  ELSE IF CharCode(a[1]) # CharCode(b[1]) THEN CharCode(a[1]) < CharCode(b[1])
  ELSE StringLess(Tail(a), Tail(b))

\* autoVersion < MinimumAutoVersion on two SemVer objects: `<` converts each
\* object to a primitive, which for SemVer is toString(), and compares the strings.
SemVerLessThan(a, b) == StringLess(a.version, b.version)

IsMultiLineRaw(stdout) == IncludesNewline(stdout)

\* !stdout.includes('\n') fails, stdout being autoOutput.stdout.trim()
IsMultiLine(stdout) == IncludesNewline(Trim(stdout))

\* The outcome of lines 439-452 on the captured stdout: "none" or the error thrown.
VersionCheck(stdout) ==
  LET match == VersionMatch(Trim(stdout))
  IN IF IsMultiLine(stdout) THEN "none"
     ELSE IF match = <<>> \/ ~SemverValid(match) THEN "VersionUnparseable"
     ELSE IF SemVerLessThan(SemVer(match), MinimumAutoVersion) THEN "VersionTooOld"
     ELSE "none"

-----------------------------------------------------------------------------
(* execAuto *)

\* process.env, as far as the model needs it.
ProcessEnv == [PATH |-> "/usr/bin"]

\* The two loops of execAuto over process.env and this.autoEnv: the overlay wins.
MergeEnv(base, overlay) ==
  [k \in (DOMAIN base) \cup (DOMAIN overlay) |->
     IF k \in DOMAIN overlay THEN overlay[k] ELSE base[k]]

ExecArgsGlobalLast(gargs, args) == args \o gargs

\* const execArgs = [...this.globalArgs, ...args]
ExecArgs(gargs, args) == gargs \o args

\* What execAuto hands to exec.exec, and the subprocess it starts.
ExecStart(command, gargs, overlay, args, allowAllExitCodes) ==
  [command |-> "\"" \o command \o "\"",
   args |-> args,
   execArgs |-> ExecArgs(gargs, args),
   env |-> MergeEnv(ProcessEnv, overlay),
   ignoreReturnCode |-> allowAllExitCodes,
   proc |-> "running",
   exitCode |-> 0]

\* exec.exec rejects when the exit code is not zero and ignoreReturnCode is off.
ExecRejects(p, code) == code # 0 /\ ~p.ignoreReturnCode

-----------------------------------------------------------------------------
(* createCommandManager / initializeCommandManager *)

NpxPath == "/usr/bin/npx"

AutoPath == "/usr/bin/auto"

PushIf(args, cond, items) == IF cond THEN args \o items ELSE args

GlobalArgsPluginsFirst(gargs, repo, owner, githubApi, plugins) ==
  LET a1 == PushIf(gargs, Len(plugins) > 0, <<"--plugins", "[" \o JoinSpace(plugins) \o "]">>)
      a2 == PushIf(a1, repo # "", <<"--repo", repo>>)
      a3 == PushIf(a2, owner # "", <<"--owner", owner>>)
  IN PushIf(a3, githubApi # "", <<"--githubApi", githubApi>>)

\* Lines 412-423: the four conditional pushes onto this.globalArgs.
GlobalArgsPushes(gargs, repo, owner, githubApi, plugins) ==
  LET a1 == PushIf(gargs, repo # "", <<"--repo", repo>>)
      a2 == PushIf(a1, owner # "", <<"--owner", owner>>)
      a3 == PushIf(a2, githubApi # "", <<"--githubApi", githubApi>>)
  IN PushIf(a3, Len(plugins) > 0, <<"--plugins", "[" \o JoinSpace(plugins) \o "]">>)

\* Lines 424-435: io.which('npx'), then io.which('auto'); "" when both throw.
WhichAuto(npx, auto) ==
  IF npx THEN NpxPath \o " auto" ELSE IF auto THEN AutoPath ELSE ""

NoProbe == [proc |-> "none"]

\* createCommandManager up to its first wait on a subprocess: the object is
\* constructed, the global arguments are pushed, the executable is looked up
\* (npx and auto say which of the two the host has) and `--version` is started.
initializeCommandManager(repo, owner, githubApi, plugins, npx, auto) ==
  /\ initState = "new"
  /\ initInputs' = [repo |-> repo, owner |-> owner, githubApi |-> githubApi, plugins |-> plugins]
  /\ globalArgs' = GlobalArgsPushes(globalArgs, repo, owner, githubApi, plugins)
  /\ autoCommand' = WhichAuto(npx, auto)
  /\ IF npx \/ auto
       THEN /\ probe' = ExecStart(autoCommand', globalArgs', autoEnv, <<"--version">>, FALSE)
            /\ initState' = "probing"
            /\ initError' = "none"
       ELSE /\ probe' = probe
            /\ initState' = "failed"
            /\ initError' = "ExecutableNotFound"
  /\ UNCHANGED <<autoEnv, calls>>

\* The `--version` subprocess closes with an exit code after writing chunks to
\* stdout; initializeCommandManager resumes at line 438 and runs to its end.
VersionProbeClose(code, chunks) ==
  /\ initState = "probing"
  /\ probe.proc = "running"
  /\ probe' = [proc |-> "exited", exitCode |-> code, stdout |-> JoinChunks(chunks),
               command |-> probe.command, args |-> probe.args, execArgs |-> probe.execArgs,
               env |-> probe.env, ignoreReturnCode |-> probe.ignoreReturnCode]
  /\ initError' = IF ExecRejects(probe, code) THEN "SubprocessFailure"
                  ELSE VersionCheck(JoinChunks(chunks))
  /\ initState' = IF initError' = "none" THEN "ready" ELSE "failed"
  /\ UNCHANGED <<autoEnv, autoCommand, globalArgs, initInputs, calls>>

-----------------------------------------------------------------------------
(* Inputs the model draws from *)

Repos == {"", "octo-repo"}

Owners == {"", "octo"}

GithubApis == {"", "https://ghe.example/api/v3"}

PluginLists == {<<>>, <<"npm">>, <<"npm", "released">>}

ExitCodes == {0, 1}

Majors == {8, 9, 10}

Minors == {3, 24, 25, 26, 100}

Patches == {0, 1, 10}

\* major.minor.patch as `auto --version` prints it.
VersionText(major, minor, patch) ==
  NatChars(major) \o <<".">> \o NatChars(minor) \o <<".">> \o NatChars(patch)

VersionTexts == {VersionText(ma, mi, pa) : ma \in Majors, mi \in Minors, pa \in Patches}

Banner == <<"n", "p", "x", ":", " ", "w", "a", "r", "n">>

NoVersionHere == <<"n", "o", " ", "v", "e", "r", "s", "i", "o", "n", " ", "h", "e", "r", "e">>

\* Each output is the sequence of chunks the subprocess writes to stdout.
SingleLineOutputs ==
  {<<t>> : t \in VersionTexts}
  \cup {<<t, <<"\n">>>> : t \in VersionTexts}
  \cup {<<<<"v">> \o t \o <<" ", "s", "t", "a", "b", "l", "e">>>> : t \in VersionTexts}
  \cup {<<>>, <<<<"\n">>>>, <<NoVersionHere>>, <<<<"9", ".", "2", "5">>>>,
        <<<<"0", "9", ".", "2", "5", ".", "0">>>>,
        <<<<"9", ".", "2">>, <<"5", ".", "0">>>>,
        <<<<"a", "u", "t", "o", " ", "1", "0", ".", "1">>>>}

MultiLineOutputs ==
  {<<Banner \o <<"\n">>, t \o <<"\n">>>> : t \in VersionTexts}
  \cup {<<Banner \o <<"\n">> \o NoVersionHere>>}

ProbeOutputs == SingleLineOutputs \cup MultiLineOutputs

-----------------------------------------------------------------------------
(* The state after `new AutoCommandManager()` *)

Init ==
  /\ autoEnv = <<>>
  /\ autoCommand = ""
  /\ globalArgs = <<>>
  /\ initState = "new"
  /\ initError = "none"
  /\ initInputs = [repo |-> "", owner |-> "", githubApi |-> "", plugins |-> <<>>]
  /\ probe = NoProbe
  /\ calls = <<>>

-----------------------------------------------------------------------------
(* Initialization alone, over every configuration and every probe output *)

NextInit ==
  \/ \E repo \in Repos, owner \in Owners, githubApi \in GithubApis, plugins \in PluginLists,
        npx \in BOOLEAN, auto \in BOOLEAN :
       initializeCommandManager(repo, owner, githubApi, plugins, npx, auto)
  \/ \E code \in ExitCodes, chunks \in ProbeOutputs : VersionProbeClose(code, chunks)

SpecInit == Init /\ [][NextInit]_vars

-----------------------------------------------------------------------------
(* The argument list each operation builds *)

commonChangelogReleaseArgsNameAlways(args, dryRun, noVersionPrefix, name, email, from) ==
  LET a1 == PushIf(args, dryRun, <<"--dry-run">>)
      a2 == PushIf(a1, noVersionPrefix, <<"--no-version-prefix">>)
      a3 == a2 \o <<"--name", name>>
      a4 == PushIf(a3, email # "", <<"--email", email>>)
  IN PushIf(a4, from # "", <<"--from", from>>)

commonChangelogReleaseArgs(args, dryRun, noVersionPrefix, name, email, from) ==
  LET a1 == PushIf(args, dryRun, <<"--dry-run">>)
      a2 == PushIf(a1, noVersionPrefix, <<"--no-version-prefix">>)
      a3 == PushIf(a2, name # "", <<"--name", name>>)
      a4 == PushIf(a3, email # "", <<"--email", email>>)
  IN PushIf(a4, from # "", <<"--from", from>>)

commonPrArgs(args, dryRun, pr, context) ==
  LET a1 == PushIf(args, dryRun, <<"--dry-run">>)
      a2 == PushIf(a1, pr > 0, <<"--pr", NumberToString(pr)>>)
  IN PushIf(a2, context # "", <<"--context", context>>)

infoArgs(listPlugins) == PushIf(<<"info">>, listPlugins, <<"--list-plugins">>)

versionArgs(onlyPublishWithReleaseVersion, from) ==
  LET a1 == PushIf(<<"version">>, onlyPublishWithReleaseVersion,
                   <<"--only-publish-with-release-label">>)
  IN PushIf(a1, from # "", <<"--from", from>>)

changelogArgs(dryRun, noVersionPrefix, name, email, from, to, title, message, baseBranch) ==
  LET a1 == commonChangelogReleaseArgs(<<"changelog">>, dryRun, noVersionPrefix, name, email, from)
      a2 == PushIf(a1, to # "", <<"--to", to>>)
      a3 == PushIf(a2, title # "", <<"--title", title>>)
      a4 == PushIf(a3, message # "", <<"--message", message>>)
  IN PushIf(a4, baseBranch # "", <<"--base-branch", baseBranch>>)

releaseArgs(dryRun, noVersionPrefix, name, email, from, useVersion, baseBranch, preRelease) ==
  LET a1 == commonChangelogReleaseArgs(<<"release">>, dryRun, noVersionPrefix, name, email, from)
      a2 == PushIf(a1, useVersion # "", <<"--use-version", useVersion>>)
      a3 == PushIf(a2, baseBranch # "", <<"--base-branch", baseBranch>>)
  IN PushIf(a3, preRelease, <<"--pre-release">>)

shipitArgs(dryRun, baseBranch, onlyGraduateWithReleaseLabel) ==
  LET a1 == PushIf(<<"shipit">>, dryRun, <<"--dry-run">>)
      a2 == PushIf(a1, baseBranch # "", <<"--base-branch", baseBranch>>)
  IN PushIf(a2, onlyGraduateWithReleaseLabel, <<"--only-graduate-with-release-label">>)

nextArgs(dryRun, message) ==
  LET a1 == PushIf(<<"next">>, dryRun, <<"--dry-run">>)
  IN PushIf(a1, message # "", <<"--message", message>>)

canaryArgs(dryRun, pr, build, message, force) ==
  LET a1 == PushIf(<<"canary">>, dryRun, <<"--dry-run">>)
      a2 == PushIf(a1, pr > 0, <<"--pr", NumberToString(pr)>>)
      a3 == PushIf(a2, build # "", <<"--build", build>>)
      a4 == PushIf(a3, message # "", <<"--message", message>>)
  IN PushIf(a4, force, <<"--force">>)

labelArgsLastDigit(pr) == PushIf(<<"label">>, pr > 0, <<"--pr", NumberToStringLastDigit(pr)>>)

labelArgs(pr) == PushIf(<<"label">>, pr > 0, <<"--pr", NumberToString(pr)>>)

latestArgs(dryRun, baseBranch) ==
  LET a1 == PushIf(<<"latest">>, dryRun, <<"--dry-run">>)
  IN PushIf(a1, baseBranch # "", <<"--base-branch", baseBranch>>)

prStatusArgs(dryRun, pr, context, url, sha, state, description) ==
  LET a1 == commonPrArgs(<<"pr-status">>, dryRun, pr, context)
      a2 == PushIf(a1, url # "", <<"--url", url>>)
      a3 == PushIf(a2, sha # "", <<"--sha", sha>>)
      a4 == PushIf(a3, state # "", <<"--state", state>>)
  IN PushIf(a4, description # "", <<"--description", description>>)

prCheckArgs(dryRun, pr, context, url) ==
  LET a1 == commonPrArgs(<<"pr-check">>, dryRun, pr, context)
  IN PushIf(a1, url # "", <<"--url", url>>)

prBodyArgs(dryRun, pr, context, message) ==
  LET a1 == commonPrArgs(<<"pr-body">>, dryRun, pr, context)
  IN PushIf(a1, message # "", <<"--message", message>>)

commentArgs(dryRun, pr, context, message, edit, del) ==
  LET a1 == commonPrArgs(<<"comment">>, dryRun, pr, context)
      a2 == PushIf(a1, message # "", <<"--message", message>>)
      a3 == PushIf(a2, edit, <<"--edit">>)
  IN PushIf(a3, del, <<"--delete">>)

-----------------------------------------------------------------------------
(* The operations *)

\* The caller is one logical task: it holds the manager createCommandManager
\* returned and awaits each operation's promise before it calls the next.
CanCall ==
  /\ initState = "ready"
  /\ Len(calls) < MaxCalls
  /\ \A i \in 1..Len(calls) : calls[i].result # "pending"

\* What an operation hands to execAuto, the subprocess execAuto starts, and the
\* operation's promise: pending when the operation awaits execAuto, already
\* fulfilled (with no value) when it calls execAuto and returns.
NewCall(op, in, args, awaited, returnsStdout) ==
  LET p == ExecStart(autoCommand, globalArgs, autoEnv, args, FALSE)
  IN [op |-> op, in |-> in, awaited |-> awaited, returnsStdout |-> returnsStdout,
      command |-> p.command, args |-> p.args, execArgs |-> p.execArgs, env |-> p.env,
      ignoreReturnCode |-> p.ignoreReturnCode, proc |-> p.proc, exitCode |-> p.exitCode,
      result |-> IF awaited THEN "pending" ELSE "fulfilled",
      value |-> <<>>, unhandled |-> FALSE]

OperationPushesOntoGlobalArgs(op, in, args, awaited, returnsStdout) ==
  /\ CanCall
  /\ calls' = Append(calls, NewCall(op, in, args, awaited, returnsStdout))
  /\ globalArgs' = globalArgs \o args
  /\ UNCHANGED <<autoEnv, autoCommand, initState, initError, initInputs, probe>>

\* An operation from its call to its first wait (or its return): the argument
\* list is built and execAuto runs up to `await exec.exec`.
Operation(op, in, args, awaited, returnsStdout) ==
  /\ CanCall
  /\ calls' = Append(calls, NewCall(op, in, args, awaited, returnsStdout))
  /\ UNCHANGED <<autoEnv, autoCommand, globalArgs, initState, initError, initInputs, probe>>

info(listPlugins) ==
  Operation("info", [listPlugins |-> listPlugins], infoArgs(listPlugins), TRUE, TRUE)

version(onlyPublishWithReleaseVersion, from) ==
  Operation("version",
            [onlyPublishWithReleaseVersion |-> onlyPublishWithReleaseVersion, from |-> from],
            versionArgs(onlyPublishWithReleaseVersion, from), TRUE, TRUE)

changelog(dryRun, noVersionPrefix, name, email, from, to, title, message, baseBranch) ==
  Operation("changelog",
            [dryRun |-> dryRun, noVersionPrefix |-> noVersionPrefix, name |-> name,
             email |-> email, from |-> from, to |-> to, title |-> title,
             message |-> message, baseBranch |-> baseBranch],
            changelogArgs(dryRun, noVersionPrefix, name, email, from, to, title, message,
                          baseBranch),
            TRUE, FALSE)

release(dryRun, noVersionPrefix, name, email, from, useVersion, baseBranch, preRelease) ==
  Operation("release",
            [dryRun |-> dryRun, noVersionPrefix |-> noVersionPrefix, name |-> name,
             email |-> email, from |-> from, useVersion |-> useVersion,
             baseBranch |-> baseBranch, preRelease |-> preRelease],
            releaseArgs(dryRun, noVersionPrefix, name, email, from, useVersion, baseBranch,
                        preRelease),
            TRUE, FALSE)

shipit(dryRun, baseBranch, onlyGraduateWithReleaseLabel) ==
  Operation("shipit",
            [dryRun |-> dryRun, baseBranch |-> baseBranch,
             onlyGraduateWithReleaseLabel |-> onlyGraduateWithReleaseLabel],
            shipitArgs(dryRun, baseBranch, onlyGraduateWithReleaseLabel), TRUE, FALSE)

next(dryRun, message) ==
  Operation("next", [dryRun |-> dryRun, message |-> message], nextArgs(dryRun, message),
            TRUE, FALSE)

canary(dryRun, pr, build, message, force) ==
  Operation("canary",
            [dryRun |-> dryRun, pr |-> pr, build |-> build, message |-> message,
             force |-> force],
            canaryArgs(dryRun, pr, build, message, force), TRUE, FALSE)

label(pr) == Operation("label", [pr |-> pr], labelArgs(pr), TRUE, TRUE)

latest(dryRun, baseBranch) ==
  Operation("latest", [dryRun |-> dryRun, baseBranch |-> baseBranch],
            latestArgs(dryRun, baseBranch), TRUE, FALSE)

\* prStatus, prBody and comment call execAuto without `await`.
prStatus(dryRun, pr, context, url, sha, state, description) ==
  Operation("prStatus",
            [dryRun |-> dryRun, pr |-> pr, context |-> context, url |-> url, sha |-> sha,
             state |-> state, description |-> description],
            prStatusArgs(dryRun, pr, context, url, sha, state, description), FALSE, FALSE)

prCheck(dryRun, pr, context, url) ==
  Operation("prCheck", [dryRun |-> dryRun, pr |-> pr, context |-> context, url |-> url],
            prCheckArgs(dryRun, pr, context, url), TRUE, TRUE)

prBody(dryRun, pr, context, message) ==
  Operation("prBody",
            [dryRun |-> dryRun, pr |-> pr, context |-> context, message |-> message],
            prBodyArgs(dryRun, pr, context, message), FALSE, FALSE)

comment(dryRun, pr, context, message, edit, del) ==
  Operation("comment",
            [dryRun |-> dryRun, pr |-> pr, context |-> context, message |-> message,
             edit |-> edit, del |-> del],
            commentArgs(dryRun, pr, context, message, edit, del), FALSE, FALSE)

\* The subprocess of call i closes with an exit code, its stdout chunks handed
\* to the listener before; exec.exec's promise settles and execAuto resumes at
\* line 402 (or throws).  An operation that awaits execAuto settles with it; one
\* that did not has returned already, and a rejection then has no handler.
ExecClose(i, code, chunks) ==
  /\ i \in 1..Len(calls)
  /\ calls[i].proc = "running"
  /\ LET c == calls[i]
         rejects == ExecRejects(c, code)
     IN calls' = [calls EXCEPT ![i] =
          [c EXCEPT !.proc = "exited",
                    !.exitCode = code,
                    !.result = IF c.awaited
                                 THEN (IF rejects THEN "rejected" ELSE "fulfilled")
                                 ELSE c.result,
                    !.value = IF c.awaited /\ c.returnsStdout /\ ~rejects
                                THEN JoinChunks(chunks) ELSE c.value,
                    !.unhandled = (~c.awaited /\ rejects)]]
  /\ UNCHANGED <<autoEnv, autoCommand, globalArgs, initState, initError, initInputs, probe>>

-----------------------------------------------------------------------------
(* The whole life of a manager: initialization, then operations called one  *)
(* after another by a caller that awaits each, and subprocesses closing     *)

\* What the subprocess of an operation writes to stdout, in chunks.
OperationOutput == <<<<"v", "1", ".">>, <<"2", ".", "3", "\n">>>>

NpxCurrent == <<<<"9", ".", "2", "5", ".", "0", "\n">>>>

NpxOld == <<<<"9", ".", "2", "4", ".", "0", "\n">>>>

PrSamples == {0, 42}

Next ==
  \/ \E repo \in Repos, npx \in BOOLEAN, auto \in BOOLEAN :
       initializeCommandManager(repo, "octo", "", <<"npm", "released">>, npx, auto)
  \/ \E code \in ExitCodes, chunks \in {NpxCurrent, NpxOld} : VersionProbeClose(code, chunks)
  \/ \E listPlugins \in BOOLEAN : info(listPlugins)
  \/ \E b \in BOOLEAN : version(b, "v1.0.0")
  \/ \E dryRun \in BOOLEAN :
       changelog(dryRun, FALSE, "bot", "bot@x.com", "v1.0.0", "", "", "notes", "main")
  \/ \E dryRun \in BOOLEAN :
       release(dryRun, FALSE, "bot", "bot@x.com", "v1.0.0", "", "", FALSE)
  \/ \E dryRun \in BOOLEAN : shipit(dryRun, "main", TRUE)
  \/ \E dryRun \in BOOLEAN : next(dryRun, "notes")
  \/ \E pr \in PrSamples : canary(TRUE, pr, "b7", "", FALSE)
  \/ \E pr \in PrSamples : label(pr)
  \/ \E dryRun \in BOOLEAN : latest(dryRun, "main")
  \/ \E pr \in PrSamples : prStatus(FALSE, pr, "ci", "https://ci.example/1", "", "pending", "")
  \/ \E pr \in PrSamples : prCheck(FALSE, pr, "ci", "")
  \/ \E pr \in PrSamples : prBody(FALSE, pr, "", "done")
  \/ \E pr \in PrSamples : comment(FALSE, pr, "ci", "done", FALSE, TRUE)
  \/ \E i \in 1..MaxCalls, code \in ExitCodes : ExecClose(i, code, OperationOutput)

Spec == Init /\ [][Next]_vars

-----------------------------------------------------------------------------
(* One operation of an initialized manager, over every combination of inputs *)

\* Flag values: absent, ordinary, and one that reads like a flag.
Texts == {"", "main", "--force"}

PrNumbers == {-1, 0, 7, 42}

PrStates == {"", "pending", "failure"}

\* The state createCommandManager("octo-repo", "", "", <<"npm", "released">>)
\* leaves when npx is found and `--version` prints a current version.
InitArgs ==
  /\ autoEnv = <<>>
  /\ autoCommand = WhichAuto(TRUE, FALSE)
  /\ globalArgs = GlobalArgsPushes(<<>>, "octo-repo", "", "", <<"npm", "released">>)
  /\ initState = "ready"
  /\ initError = "none"
  /\ initInputs = [repo |-> "octo-repo", owner |-> "", githubApi |-> "",
                   plugins |-> <<"npm", "released">>]
  /\ probe = [proc |-> "exited", exitCode |-> 0, stdout |-> JoinChunks(NpxCurrent),
              command |-> "\"" \o WhichAuto(TRUE, FALSE) \o "\"", args |-> <<"--version">>,
              execArgs |-> ExecArgs(globalArgs, <<"--version">>),
              env |-> MergeEnv(ProcessEnv, <<>>), ignoreReturnCode |-> FALSE]
  /\ calls = <<>>

NextArgs ==
  \/ /\ calls = <<>>
     /\ \/ \E listPlugins \in BOOLEAN : info(listPlugins)
        \/ \E b \in BOOLEAN, from \in Texts : version(b, from)
        \/ \E dryRun \in BOOLEAN, noVersionPrefix \in BOOLEAN, name \in Texts, email \in Texts,
              from \in Texts, to \in Texts, title \in Texts, message \in Texts,
              baseBranch \in Texts :
             changelog(dryRun, noVersionPrefix, name, email, from, to, title, message,
                       baseBranch)
        \/ \E dryRun \in BOOLEAN, noVersionPrefix \in BOOLEAN, name \in Texts, email \in Texts,
              from \in Texts, useVersion \in Texts, baseBranch \in Texts,
              preRelease \in BOOLEAN :
             release(dryRun, noVersionPrefix, name, email, from, useVersion, baseBranch,
                     preRelease)
        \/ \E dryRun \in BOOLEAN, baseBranch \in Texts, only \in BOOLEAN :
             shipit(dryRun, baseBranch, only)
        \/ \E dryRun \in BOOLEAN, message \in Texts : next(dryRun, message)
        \/ \E dryRun \in BOOLEAN, pr \in PrNumbers, build \in Texts, message \in Texts,
              force \in BOOLEAN :
             canary(dryRun, pr, build, message, force)
        \/ \E pr \in PrNumbers : label(pr)
        \/ \E dryRun \in BOOLEAN, baseBranch \in Texts : latest(dryRun, baseBranch)
        \/ \E dryRun \in BOOLEAN, pr \in PrNumbers, context \in Texts, url \in Texts,
              sha \in Texts, state \in PrStates, description \in Texts :
             prStatus(dryRun, pr, context, url, sha, state, description)
        \/ \E dryRun \in BOOLEAN, pr \in PrNumbers, context \in Texts, url \in Texts :
             prCheck(dryRun, pr, context, url)
        \/ \E dryRun \in BOOLEAN, pr \in PrNumbers, context \in Texts, message \in Texts :
             prBody(dryRun, pr, context, message)
        \/ \E dryRun \in BOOLEAN, pr \in PrNumbers, context \in Texts, message \in Texts,
              edit \in BOOLEAN, del \in BOOLEAN :
             comment(dryRun, pr, context, message, edit, del)
  \/ \E code \in ExitCodes : ExecClose(1, code, OperationOutput)

SpecArgs == InitArgs /\ [][NextArgs]_vars

-----------------------------------------------------------------------------
(* Properties: failure propagation and subprocess lifetime *)

\* C1: whenever the subprocess of an operation has exited with a non-zero code
\* (exit codes not being tolerated), that operation's promise is rejected: the
\* caller never sees it fulfilled.
C1_FailurePropagates ==
  \A i \in 1..Len(calls) :
    (calls[i].proc = "exited" /\ calls[i].exitCode # 0 /\ ~calls[i].ignoreReturnCode)
      => calls[i].result = "rejected"

\* C2: an operation has returned to its caller (its promise is settled) only
\* when its one subprocess has exited, and so at most one subprocess of the
\* sequentially called operations runs at any time.
C2_ReturnsAfterSubprocessExit ==
  /\ \A i \in 1..Len(calls) : calls[i].result # "pending" => calls[i].proc = "exited"
  /\ Cardinality({i \in 1..Len(calls) : calls[i].proc = "running"}) <= 1

-----------------------------------------------------------------------------
(* Properties: the version check *)

\* The `--version` subprocess exited with code 0 and wrote exactly this text.
ProbePrinted(text) == probe.proc = "exited" /\ probe.exitCode = 0 /\ probe.stdout = text

\* Semantic-version precedence: major, then minor, then patch, as numbers.
PrecedenceLess(a, b) ==
  \/ a.major < b.major
  \/ a.major = b.major /\ a.minor < b.minor
  \/ a.major = b.major /\ a.minor = b.minor /\ a.patch < b.patch

\* A line break with something that is not white space before and after it.
LineBreakInside(s) ==
  \E i, j, k \in 1..Len(s) :
    i < j /\ j < k /\ s[j] = "\n" /\ s[i] \notin WhiteSpace /\ s[k] \notin WhiteSpace

\* C3: for single-line output that holds a valid major.minor.patch, initialization
\* fails with VersionTooOld exactly when the version precedes 9.25.0 in
\* semantic-version precedence, and succeeds otherwise.
C3_TooOldIffBelowMinimum ==
  \A ma \in Majors, mi \in Minors, pa \in Patches :
    ProbePrinted(VersionText(ma, mi, pa)) =>
      IF PrecedenceLess([major |-> ma, minor |-> mi, patch |-> pa],
                        [major |-> 9, minor |-> 25, patch |-> 0])
        THEN initState = "failed" /\ initError = "VersionTooOld"
        ELSE initState = "ready" /\ initError = "none"

\* C4 as stated: "9.25.0", "v9.25.0 stable" and "9.25" do not fail with
\* VersionUnparseable; "no version here" does.
C4_TwoPartVersionParses ==
  /\ ProbePrinted(<<"9", ".", "2", "5", ".", "0">>) => initError # "VersionUnparseable"
  /\ ProbePrinted(<<"v", "9", ".", "2", "5", ".", "0", " ", "s", "t", "a", "b", "l", "e">>)
       => initError # "VersionUnparseable"
  /\ ProbePrinted(<<"9", ".", "2", "5">>) => initError # "VersionUnparseable"
  /\ ProbePrinted(NoVersionHere) => initError = "VersionUnparseable"

\* C4 amended: "9.25.0" and "v9.25.0 stable" yield a valid version and
\* initialization succeeds; "9.25" (no patch) and "no version here" fail with
\* VersionUnparseable.
C4_VersionParsing ==
  /\ ProbePrinted(<<"9", ".", "2", "5", ".", "0">>) => initState = "ready"
  /\ ProbePrinted(<<"v", "9", ".", "2", "5", ".", "0", " ", "s", "t", "a", "b", "l", "e">>)
       => initState = "ready"
  /\ ProbePrinted(<<"9", ".", "2", "5">>)
       => initState = "failed" /\ initError = "VersionUnparseable"
  /\ ProbePrinted(NoVersionHere) => initState = "failed" /\ initError = "VersionUnparseable"

C4_Witness ==
  ProbePrinted(<<"9", ".", "2", "5">>) /\ initError = "VersionUnparseable"

\* C8: when `--version` exits with 0 and its output still has a line break after
\* trimming, initialization succeeds whatever the text holds; output that is
\* single-line after trimming is checked: initialization succeeds only if a
\* version is found in it, empty output fails with VersionUnparseable and
\* "9.24.0" followed by a line break fails with VersionTooOld.
C8_MultiLineSkipsCheck ==
  (probe.proc = "exited" /\ probe.exitCode = 0) =>
    /\ LineBreakInside(probe.stdout) => initState = "ready" /\ initError = "none"
    /\ (~LineBreakInside(probe.stdout) /\ initState = "ready")
         => \E i \in 1..Len(probe.stdout) : probe.stdout[i] \in Digits
    /\ probe.stdout \in {<<>>, <<"\n">>}
         => initState = "failed" /\ initError = "VersionUnparseable"
    /\ probe.stdout = <<"9", ".", "2", "4", ".", "0", "\n">>
         => initState = "failed" /\ initError = "VersionTooOld"

C8_Witness ==
  /\ ProbePrinted(Banner \o <<"\n", "9", ".", "2", "4", ".", "0", "\n">>)
  /\ initState = "ready"

-----------------------------------------------------------------------------
(* Properties: the global argument list *)

Pair(flag, value) == IF value = "" THEN <<>> ELSE <<flag, value>>

PluginsText ==
  (<<"npm">> :> "[npm]") @@ (<<"npm", "released">> :> "[npm released]")

\* C7: after initialization the global argument list is --repo, --owner,
\* --githubApi and --plugins in this order, each followed by its value and each
\* present exactly when its input is non-empty.
C7_GlobalArgsOrder ==
  initState = "ready" =>
    globalArgs = Pair("--repo", initInputs.repo)
                 \o Pair("--owner", initInputs.owner)
                 \o Pair("--githubApi", initInputs.githubApi)
                 \o (IF initInputs.plugins = <<>> THEN <<>>
                     ELSE <<"--plugins", PluginsText[initInputs.plugins]>>)

C7_Witness ==
  /\ initState = "ready"
  /\ initInputs.repo # "" /\ initInputs.owner # "" /\ initInputs.githubApi # ""
  /\ Len(initInputs.plugins) = 2
  /\ Len(globalArgs) = 8

SubcommandToken ==
  [info |-> "info", version |-> "version", changelog |-> "changelog", release |-> "release",
   shipit |-> "shipit", latest |-> "latest", next |-> "next", canary |-> "canary",
   label |-> "label", prStatus |-> "pr-status", prCheck |-> "pr-check",
   prBody |-> "pr-body", comment |-> "comment"]

GlobalFlags == {"--repo", "--owner", "--githubApi", "--plugins"}

\* The vector starts with the global arguments, `first` comes right after them
\* and no global flag comes later.
GlobalArgsPrefix(vector, first) ==
  /\ Len(vector) > Len(globalArgs)
  /\ SubSeq(vector, 1, Len(globalArgs)) = globalArgs
  /\ vector[Len(globalArgs) + 1] = first
  /\ \A k \in (Len(globalArgs) + 1)..Len(vector) : vector[k] \notin GlobalFlags

\* C9: every argument vector handed to a subprocess, the `--version` probe's
\* included, is the global arguments followed by the command's own, the
\* subcommand token (or --version) right after the global arguments.
C9_GlobalArgsFirst ==
  /\ probe.proc # "none" => GlobalArgsPrefix(probe.execArgs, "--version")
  /\ \A i \in 1..Len(calls) :
       /\ GlobalArgsPrefix(calls[i].execArgs, SubcommandToken[calls[i].op])
       /\ SubSeq(calls[i].execArgs, Len(globalArgs) + 1, Len(calls[i].execArgs))
            = calls[i].args

C9_Witness ==
  /\ probe.proc = "exited"
  /\ globalArgs # <<>>
  /\ Len(calls) = MaxCalls
  /\ calls[1].op = "prStatus"
  /\ calls[2].op = "release"

\* C10: once initialization has succeeded no step changes the configuration,
\* and two calls of the same operation with the same inputs hand the same
\* command, vector and environment to their subprocesses, whatever was called
\* in between or is still running.
C10_ConfigurationIsFixed ==
  /\ [][initState = "ready" => config' = config]_vars
  /\ [](\A i, j \in 1..Len(calls) :
          (calls[i].op = calls[j].op /\ calls[i].in = calls[j].in)
            => /\ calls[i].execArgs = calls[j].execArgs
               /\ calls[i].command = calls[j].command
               /\ calls[i].env = calls[j].env)

C10_Witness ==
  /\ Len(calls) = 2
  /\ calls[1].op = "comment" /\ calls[2].op = "comment"
  /\ calls[1].in = calls[2].in
  /\ calls[1].proc = "running"
  /\ calls[2].proc = "exited"

-----------------------------------------------------------------------------
(* Properties: the flags of an operation *)

F(flag, kind, input) == [flag |-> flag, kind |-> kind, input |-> input]

DryRunFlag == F("--dry-run", "boolean", "dryRun")

ChangelogReleaseFlags ==
  <<DryRunFlag, F("--no-version-prefix", "boolean", "noVersionPrefix"),
    F("--name", "string", "name"), F("--email", "string", "email"),
    F("--from", "string", "from")>>

PrFlags == <<DryRunFlag, F("--pr", "number", "pr"), F("--context", "string", "context")>>

\* The optional flags of each operation, each with the input that guards it.
OptionalFlags ==
  [info |-> <<F("--list-plugins", "boolean", "listPlugins")>>,
   version |-> <<F("--only-publish-with-release-label", "boolean",
                   "onlyPublishWithReleaseVersion"),
                 F("--from", "string", "from")>>,
   changelog |-> ChangelogReleaseFlags
                 \o <<F("--to", "string", "to"), F("--title", "string", "title"),
                      F("--message", "string", "message"),
                      F("--base-branch", "string", "baseBranch")>>,
   release |-> ChangelogReleaseFlags
               \o <<F("--use-version", "string", "useVersion"),
                    F("--base-branch", "string", "baseBranch"),
                    F("--pre-release", "boolean", "preRelease")>>,
   shipit |-> <<DryRunFlag, F("--base-branch", "string", "baseBranch"),
                F("--only-graduate-with-release-label", "boolean",
                  "onlyGraduateWithReleaseLabel")>>,
   next |-> <<DryRunFlag, F("--message", "string", "message")>>,
   canary |-> <<DryRunFlag, F("--pr", "number", "pr"), F("--build", "string", "build"),
                F("--message", "string", "message"), F("--force", "boolean", "force")>>,
   label |-> <<F("--pr", "number", "pr")>>,
   latest |-> <<DryRunFlag, F("--base-branch", "string", "baseBranch")>>,
   prStatus |-> PrFlags
                \o <<F("--url", "string", "url"), F("--sha", "string", "sha"),
                     F("--state", "string", "state"),
                     F("--description", "string", "description")>>,
   prCheck |-> PrFlags \o <<F("--url", "string", "url")>>,
   prBody |-> PrFlags \o <<F("--message", "string", "message")>>,
   comment |-> PrFlags
               \o <<F("--message", "string", "message"), F("--edit", "boolean", "edit"),
                    F("--delete", "boolean", "del")>>]

FlagsOf(op) == {OptionalFlags[op][k] : k \in 1..Len(OptionalFlags[op])}

\* The rendering of the pull-request numbers the model draws.
PrText == (-1 :> "-1") @@ (0 :> "0") @@ (7 :> "7") @@ (42 :> "42")

\* The positions of args, after the subcommand token, that hold a flag: every
\* position that is not the value following a value-taking flag.
RECURSIVE FlagSlotsFrom(_, _, _)
FlagSlotsFrom(args, op, i) ==
  IF i > Len(args) THEN {}
  ELSE {i} \cup FlagSlotsFrom(args, op,
                  IF \E f \in FlagsOf(op) : f.flag = args[i] /\ f.kind # "boolean"
                    THEN i + 2 ELSE i + 1)

FlagSlots(c) == FlagSlotsFrom(c.args, c.op, 2)

\* The value a flag is to be followed by.
FlagValue(f, c) == IF f.kind = "number" THEN PrText[c.in[f.input]] ELSE c.in[f.input]

\* Every flag slot of call c holds one of the operation's flags; each optional
\* flag is there exactly when its guard holds; a value-taking flag is followed
\* by its value as the next element, never empty and, for a number, never "0".
FlagsFollowGuards(c, numberGuard(_)) ==
  /\ \A i \in FlagSlots(c) : \E f \in FlagsOf(c.op) : f.flag = c.args[i]
  /\ \A f \in FlagsOf(c.op) :
       LET guard == CASE f.kind = "boolean" -> c.in[f.input]
                      [] f.kind = "string" -> c.in[f.input] # ""
                      [] f.kind = "number" -> numberGuard(c.in[f.input])
           at == {i \in FlagSlots(c) : c.args[i] = f.flag}
       IN /\ guard <=> at # {}
          /\ f.kind # "boolean" =>
               \A i \in at : /\ i + 1 <= Len(c.args)
                             /\ c.args[i + 1] = FlagValue(f, c)
                             /\ c.args[i + 1] # ""
                             /\ f.kind = "number" => c.args[i + 1] # "0"

NonZero(n) == n # 0

Positive(n) == n > 0

\* C5 as stated: an optional flag is in the vector exactly when its string input
\* is non-empty, its numeric input is non-zero or its boolean input is true,
\* and a value-taking flag is followed by its non-empty, non-default value.
C5_FlagsIffNonZero ==
  \A i \in 1..Len(calls) : FlagsFollowGuards(calls[i], NonZero)

\* C5 amended: the guard of a numeric input is "strictly greater than zero";
\* a flag counts as present where it stands as a flag, not where a flag's value
\* happens to read like one.
C5_FlagsIffGuard ==
  \A i \in 1..Len(calls) : FlagsFollowGuards(calls[i], Positive)

C5_Witness ==
  /\ Len(calls) = 1
  /\ calls[1].op = "comment"
  /\ calls[1].in.pr = -1
  /\ calls[1].in.message = "--force"
  /\ calls[1].in.del
  /\ calls[1].args = <<"comment", "--message", "--force", "--delete">>

PrOperations == {"canary", "label", "prStatus", "prCheck", "prBody", "comment"}

\* C6: an operation that takes a pull-request number puts --pr followed by the
\* number in decimal into its vector exactly when the number is greater than
\* zero; otherwise --pr is not in the vector at all.
C6_PrOnlyWhenPositive ==
  \A i \in 1..Len(calls) :
    calls[i].op \in PrOperations =>
      LET c == calls[i]
          at == {k \in 1..Len(c.execArgs) : c.execArgs[k] = "--pr"}
      IN IF c.in.pr > 0
           THEN /\ Cardinality(at) = 1
                /\ \A k \in at : k < Len(c.execArgs) /\ c.execArgs[k + 1] = PrText[c.in.pr]
           ELSE at = {}

C6_Witness ==
  /\ Len(calls) = 1
  /\ calls[1].op = "label"
  /\ calls[1].in.pr = 42
  /\ calls[1].execArgs[Len(calls[1].execArgs)] = "42"

====
